---- MODULE Spec2Model ----
(***************************************************************************)
(* Model of spi-rs (src/src/lib.rs): the Stream trait, the Connection      *)
(* wrapper that owns one boxed Stream, and SpiStream, the Stream           *)
(* implementation over a spidev character device.                          *)
(*                                                                         *)
(* The spidev device (Spidev::open, configure, write, read, transfer) and  *)
(* any caller-supplied Stream implementation are the environment: their    *)
(* outcomes are chosen nondeterministically in the actions.                *)
(***************************************************************************)
EXTENDS Integers, Sequences, FiniteSets, TLC

\* ---------------------------------------------------------------- bounds
\* Longest byte slice / largest read length the callers pass.
MaxLen == 2
\* Number of write/read/transfer calls issued on one Connection.
MaxCalls == 2

\* ---------------------------------------------------------------- values
\* u8 values, abstracted to the zero byte and one non-zero byte.
Byte == {0, 255}

\* &[u8] / Vec<u8> values the callers and the device exchange.
ByteSeqs == UNION {[1..n -> Byte] : n \in 0..MaxLen}

\* The data: &[u8] arguments the callers pass to write and transfer: every
\* length up to MaxLen, filled with either byte value.
CallerData == {[i \in 1..n |-> b] : n \in 0..MaxLen, b \in Byte}

\* std::io::ErrorKind values the environment may raise.
ErrorKind == {"PermissionDenied", "Other"}

\* std::io::Result<T>: val is the Vec<u8> of Ok (<<>> for Ok(())).
Ok(v) == [ok |-> TRUE, val |-> v, err |-> "none"]
Err(e) == [ok |-> FALSE, val |-> <<>>, err |-> e]
Results == {Ok(v) : v \in ByteSeqs} \cup {Err(e) : e \in ErrorKind}
NoRet == [ok |-> FALSE, val |-> <<>>, err |-> "nocall"]

\* The transports a Connection can own: the SpiStream built by from_path,
\* or a caller-supplied Stream implementation handed to Connection::new.
CallerStreams == {"StreamA", "StreamB"}
Transports == CallerStreams \cup {"SpiStream"}
NoStream == "none"

\* struct Connection { stream }; NoConn when no Connection value exists.
NoConn == [stream |-> NoStream]
Connection(s) == [stream |-> s]

\* One call of a Stream method with its argument.
Call(op, data, len) == [op |-> op, data |-> data, len |-> len]

\* ---------------------------------------------------------- the device
\* Outcome of one spidev primitive: Ok(n) with the bytes the device put in
\* the caller's buffer, or Err(kind).
DevOk(n, bytes) == [ok |-> TRUE, n |-> n, bytes |-> bytes, err |-> "none"]
DevErr(e) == [ok |-> FALSE, n |-> 0, bytes |-> <<>>, err |-> e]
NoDev == [ok |-> FALSE, n |-> 0, bytes |-> <<>>, err |-> "nocall"]

DevErrs == {DevErr(e) : e \in ErrorKind}

\* Spidev::open / Spidev::configure succeed or fail.
DevSetupOuts == {DevOk(0, <<>>)} \cup DevErrs

\* io::Write::write on the device: accepts n <= len bytes, or fails.
DevWriteOuts(len) == {DevOk(n, <<>>) : n \in 0..len} \cup DevErrs

\* io::Read::read and Spidev::transfer on a buffer of len bytes: the device
\* stores some n <= len bytes at the front of the buffer, or fails.
DevFillOuts(len) ==
    {DevOk(Len(b), b) : b \in {s \in ByteSeqs : Len(s) <= len}} \cup DevErrs

\* A device primitive invocation, as recorded on the device side.
DevCall(prim, out) == [prim |-> prim, ok |-> out.ok]

\* The device stores `bytes` at the front of the slice `buf`; the slice
\* keeps its length and the rest of its content.
Fill(buf, bytes) ==
    [i \in 1..Len(buf) |-> IF i <= Len(bytes) THEN bytes[i] ELSE buf[i]]

\* ------------------------------------------------------------ SpiStream
\* vec![0u8; len]: a buffer of len zero bytes.
\* Faulty variant: a buffer of len bytes left with stale content.
StaleVec(len) == [i \in 1..len |-> 255]
ZeroVec(len) == [i \in 1..len |-> 0]

\* SpiStream::new: open the device, then configure it; `?` returns the
\* first error.  Yields the Result, the SpiStream built (if any) and the
\* device primitives invoked.
\* Faulty variant: the result of configure is ignored.
SpiStream_new_unchecked(openOut, cfgOut) ==
    IF ~openOut.ok
    THEN [ret |-> Err(openOut.err), stream |-> NoStream,
          dev |-> <<DevCall("open", openOut)>>]
    ELSE [ret |-> Ok(<<>>), stream |-> "SpiStream",
          dev |-> <<DevCall("open", openOut), DevCall("configure", cfgOut)>>]
SpiStream_new(openOut, cfgOut) ==
    IF ~openOut.ok
    THEN [ret |-> Err(openOut.err), stream |-> NoStream,
          dev |-> <<DevCall("open", openOut)>>]
    ELSE IF ~cfgOut.ok
    THEN [ret |-> Err(cfgOut.err), stream |-> NoStream,
          dev |-> <<DevCall("open", openOut), DevCall("configure", cfgOut)>>]
    ELSE [ret |-> Ok(<<>>), stream |-> "SpiStream",
          dev |-> <<DevCall("open", openOut), DevCall("configure", cfgOut)>>]

\* <SpiStream as Stream>::write: Ok(_) => Ok(()), Err(e) => Err(e).
\* Faulty variant: a short device write is turned into an error.
SpiStream_write_strict(data, out) ==
    [ret |-> IF out.ok
             THEN (IF out.n < Len(data) THEN Err("Other") ELSE Ok(<<>>))
             ELSE Err(out.err),
     dev |-> <<DevCall("write", out)>>]
\* Faulty variant: a short device write is followed by a second write.
SpiStream_write_all(data, out) ==
    [ret |-> IF out.ok THEN Ok(<<>>) ELSE Err(out.err),
     dev |-> IF out.ok /\ out.n < Len(data)
             THEN <<DevCall("write", out), DevCall("write", out)>>
             ELSE <<DevCall("write", out)>>]
SpiStream_write(data, out) ==
    [ret |-> IF out.ok THEN Ok(<<>>) ELSE Err(out.err),
     dev |-> <<DevCall("write", out)>>]

\* <SpiStream as Stream>::read: zeroed buffer of len bytes, one device read
\* into it, `?` on its error, Ok(buf).
\* Faulty variant: only the bytes the device stored are returned.
SpiStream_read_truncated(len, out) ==
    [ret |-> IF out.ok THEN Ok(out.bytes) ELSE Err(out.err),
     dev |-> <<DevCall("read", out)>>]
SpiStream_read(len, out) ==
    LET buf == ZeroVec(len)
    IN [ret |-> IF out.ok THEN Ok(Fill(buf, out.bytes)) ELSE Err(out.err),
        dev |-> <<DevCall("read", out)>>]

\* <SpiStream as Stream>::transfer: zeroed receive buffer of data.len()
\* bytes, one read_write transfer, `?` on its error, Ok(buf).
\* Faulty variant: only the bytes the device stored are returned.
SpiStream_transfer_truncated(data, out) ==
    [ret |-> IF out.ok THEN Ok(out.bytes) ELSE Err(out.err),
     dev |-> <<DevCall("transfer", out)>>]
\* Faulty variant: a failed transfer is issued a second time.
SpiStream_transfer_retry(data, out) ==
    LET buf == ZeroVec(Len(data))
    IN [ret |-> IF out.ok THEN Ok(Fill(buf, out.bytes)) ELSE Err(out.err),
        dev |-> IF out.ok THEN <<DevCall("transfer", out)>>
                ELSE <<DevCall("transfer", out), DevCall("transfer", out)>>]
SpiStream_transfer(data, out) ==
    LET buf == ZeroVec(Len(data))
    IN [ret |-> IF out.ok THEN Ok(Fill(buf, out.bytes)) ELSE Err(out.err),
        dev |-> <<DevCall("transfer", out)>>]

\* --------------------------------------------------------- trait Stream
\* What the environment supplies for one call on a transport: the device
\* outcome when the transport is the SpiStream, the implementation's own
\* result when it is a caller-supplied Stream.
Envs(stream, op, len) ==
    IF stream = "SpiStream"
    THEN {[dev |-> d, impl |-> NoRet] :
            d \in (IF op = "write" THEN DevWriteOuts(len) ELSE DevFillOuts(len))}
    ELSE {[dev |-> NoDev, impl |-> r] : r \in Results}

\* Dynamic dispatch of stream.write / stream.read / stream.transfer on the
\* Box<dyn Stream>.
Stream_write(stream, data, env) ==
    IF stream = "SpiStream" THEN SpiStream_write(data, env.dev)
    ELSE [ret |-> env.impl, dev |-> <<>>]
Stream_read(stream, len, env) ==
    IF stream = "SpiStream" THEN SpiStream_read(len, env.dev)
    ELSE [ret |-> env.impl, dev |-> <<>>]
Stream_transfer(stream, data, env) ==
    IF stream = "SpiStream" THEN SpiStream_transfer(data, env.dev)
    ELSE [ret |-> env.impl, dev |-> <<>>]

\* ----------------------------------------------------------- Connection
\* Connection::new: Self { stream }.
Connection_new(stream) == Connection(stream)

\* Connection::from_path: Ok(Connection { stream: Box::new(SpiStream::new(..)?) }).
Connection_from_path(openOut, cfgOut) ==
    LET s == SpiStream_new(openOut, cfgOut)
    IN [ret |-> s.ret,
        conn |-> IF s.ret.ok THEN Connection(s.stream) ELSE NoConn,
        dev |-> s.dev]

\* Connection::write / read / transfer: self.stream.<op>(arg).  Each yields
\* the Connection afterwards, the value returned to the caller, the calls
\* the owned stream received with the value it returned, and the device
\* primitives invoked.
\* Faulty variant: a failed write replaces the owned stream.
Connection_write_rebinding(self, data, env) ==
    LET r == Stream_write(self.stream, data, env)
    IN [self |-> IF r.ret.ok THEN self ELSE Connection("StreamB"),
        ret |-> r.ret, sret |-> r.ret,
        scalls |-> <<Call("write", data, 0)>>, dev |-> r.dev]
Connection_write(self, data, env) ==
    LET r == Stream_write(self.stream, data, env)
    IN [self |-> self, ret |-> r.ret, sret |-> r.ret,
        scalls |-> <<Call("write", data, 0)>>, dev |-> r.dev]

\* Faulty variant: the stream's error is replaced by a generic one.
Connection_read_translating(self, len, env) ==
    LET r == Stream_read(self.stream, len, env)
    IN [self |-> self,
        ret |-> IF r.ret.ok THEN r.ret ELSE Err("Other"), sret |-> r.ret,
        scalls |-> <<Call("read", <<>>, len)>>, dev |-> r.dev]
Connection_read(self, len, env) ==
    LET r == Stream_read(self.stream, len, env)
    IN [self |-> self, ret |-> r.ret, sret |-> r.ret,
        scalls |-> <<Call("read", <<>>, len)>>, dev |-> r.dev]

Connection_transfer(self, data, env) ==
    LET r == Stream_transfer(self.stream, data, env)
    IN [self |-> self, ret |-> r.ret, sret |-> r.ret,
        scalls |-> <<Call("transfer", data, 0)>>, dev |-> r.dev]

\* ---------------------------------------------------------------- state
VARIABLES
    conn,        \* the Connection value, NoConn before/without construction
    ctor,        \* which constructor ran: "none", "new" or "from_path"
    installed,   \* the transport handed to the Connection at construction
    connCalls,   \* calls the caller issued on the Connection
    streamCalls, \* calls the owned transport received
    devCalls,    \* device primitives invoked, oldest first
    ret,         \* value the last Connection call returned to the caller
    streamRet,   \* value the transport returned for the last call
    devRet       \* outcome of the last device primitive

vars == <<conn, ctor, installed, connCalls, streamCalls, devCalls,
          ret, streamRet, devRet>>

Init ==
    /\ conn = NoConn
    /\ ctor = "none"
    /\ installed = NoStream
    /\ connCalls = <<>>
    /\ streamCalls = <<>>
    /\ devCalls = <<>>
    /\ ret = NoRet
    /\ streamRet = NoRet
    /\ devRet = NoDev

\* let c = Connection::new(Box::new(stream))
New ==
    /\ ctor = "none"
    /\ \E s \in CallerStreams :
         /\ conn' = Connection_new(s)
         /\ installed' = s
    /\ ctor' = "new"
    /\ UNCHANGED <<connCalls, streamCalls, devCalls, ret, streamRet, devRet>>

\* let c = Connection::from_path(path, bpw, max_speed, mode)
FromPath ==
    /\ ctor = "none"
    /\ \E openOut \in DevSetupOuts, cfgOut \in DevSetupOuts :
         LET r == Connection_from_path(openOut, cfgOut)
         IN /\ conn' = r.conn
            /\ installed' = r.conn.stream
            /\ ret' = r.ret
            /\ devCalls' = r.dev
            /\ devRet' = IF Len(r.dev) = 2 THEN cfgOut ELSE openOut
    /\ ctor' = "from_path"
    /\ UNCHANGED <<connCalls, streamCalls, streamRet>>

\* The effects of one Connection call on the state.
Apply(call, r, env) ==
    /\ conn' = r.self
    /\ connCalls' = Append(connCalls, call)
    /\ streamCalls' = streamCalls \o r.scalls
    /\ devCalls' = devCalls \o r.dev
    /\ ret' = r.ret
    /\ streamRet' = r.sret
    /\ devRet' = env.dev
    /\ UNCHANGED <<ctor, installed>>

\* c.write(&data)
Write ==
    /\ conn # NoConn
    /\ Len(connCalls) < MaxCalls
    /\ \E data \in CallerData :
         \E env \in Envs(conn.stream, "write", Len(data)) :
            Apply(Call("write", data, 0), Connection_write(conn, data, env), env)

\* c.read(len)
Read ==
    /\ conn # NoConn
    /\ Len(connCalls) < MaxCalls
    /\ \E len \in 0..MaxLen :
         \E env \in Envs(conn.stream, "read", len) :
            Apply(Call("read", <<>>, len), Connection_read(conn, len, env), env)

\* c.transfer(&data)
Transfer ==
    /\ conn # NoConn
    /\ Len(connCalls) < MaxCalls
    /\ \E data \in CallerData :
         \E env \in Envs(conn.stream, "transfer", Len(data)) :
            Apply(Call("transfer", data, 0),
                  Connection_transfer(conn, data, env), env)

Next == New \/ FromPath \/ Write \/ Read \/ Transfer

Spec == Init /\ [][Next]_vars

\* ----------------------------------------------------------- properties
\* The last call issued on the Connection.
LastCall == connCalls[Len(connCalls)]

\* The Connection is backed by the kernel-device transport and the last
\* call on it was `op`.
LastOnDevice(op) ==
    /\ conn # NoConn
    /\ conn.stream = "SpiStream"
    /\ connCalls # <<>>
    /\ LastCall.op = op

\* C1: for every transport and every sequence of Connection calls, the value
\* returned to the caller is exactly the value the owned transport returned
\* for that call, and the transport received exactly the calls the caller
\* issued, in order and with the same arguments.
C1_PureDelegation ==
    /\ streamCalls = connCalls
    /\ (connCalls # <<>> => ret = streamRet)

C1_Witness ==
    /\ conn # NoConn
    /\ conn.stream \in CallerStreams
    /\ Len(connCalls) >= 2
    /\ LastCall.op = "read"
    /\ ~ret.ok
    /\ ret.err = "PermissionDenied"

\* C2: a successful read(n) on the kernel-device transport returns exactly n
\* bytes, for every n >= 0; read(0) with a device read that does not error
\* returns the empty sequence.
C2_ReadLength ==
    LastOnDevice("read") =>
        /\ (ret.ok => Len(ret.val) = LastCall.len)
        /\ (LastCall.len = 0 /\ devRet.ok => ret = Ok(<<>>))

C2_Witness ==
    /\ LastOnDevice("read")
    /\ LastCall.len = 2
    /\ ret.ok
    /\ devRet.n = 0
    /\ Len(ret.val) = 2

\* C3: a successful transfer(data) on the kernel-device transport returns
\* exactly as many bytes as data has, the empty input included.
C3_TransferLength ==
    LastOnDevice("transfer") /\ ret.ok => Len(ret.val) = Len(LastCall.data)

C3_Witness ==
    /\ LastOnDevice("transfer")
    /\ Len(LastCall.data) = 2
    /\ ret.ok
    /\ devRet.n = 1

\* C4: from_path opens the device and then configures it; a failed open is
\* never followed by configure; a failed open or configure yields that same
\* error and no Connection; a Connection exists only after both succeeded.
C4_FromPath ==
    ctor = "from_path" =>
        /\ Len(devCalls) >= 1
        /\ devCalls[1].prim = "open"
        /\ (~devCalls[1].ok =>
              /\ Len(devCalls) = 1
              /\ conn = NoConn
              /\ ret = Err(devRet.err))
        /\ (devCalls[1].ok =>
              /\ Len(devCalls) >= 2
              /\ devCalls[2].prim = "configure"
              /\ (~devCalls[2].ok =>
                    /\ Len(devCalls) = 2
                    /\ conn = NoConn
                    /\ ret = Err(devRet.err))
              /\ (devCalls[2].ok => conn = Connection("SpiStream")))
        /\ (conn # NoConn => devCalls[1].ok /\ devCalls[2].ok)

C4_Witness ==
    /\ ctor = "from_path"
    /\ Len(devCalls) = 2
    /\ devCalls[1].ok
    /\ ~devCalls[2].ok
    /\ conn = NoConn
    /\ ret = Err("PermissionDenied")

\* C5: every write, read or transfer on a Connection over the kernel-device
\* transport invokes the matching device primitive exactly once, whether it
\* succeeds or fails, and a device error is returned to the caller unchanged.
C5_OncePerCall ==
    conn # NoConn /\ conn.stream = "SpiStream" =>
        /\ Len(devCalls) = 2 + Len(connCalls)
        /\ \A i \in 1..Len(connCalls) :
              i + 2 <= Len(devCalls) => devCalls[i + 2].prim = connCalls[i].op
        /\ (connCalls # <<>> /\ ~devRet.ok => ret = Err(devRet.err))

C5_Witness ==
    /\ LastOnDevice("transfer")
    /\ Len(connCalls) >= 2
    /\ ~devRet.ok
    /\ ret = Err("Other")
    /\ Len(devCalls) = 2 + Len(connCalls)

\* C6 (as stated): when the device write accepts fewer bytes than data has,
\* write(data) returns an error.
C6_PartialWriteIsError ==
    LastOnDevice("write") /\ devRet.ok /\ devRet.n < Len(LastCall.data)
        => ~ret.ok

\* C6 (amended): when the device write accepts fewer bytes than data has,
\* write(data) returns Ok(()), and the device write has been invoked once per
\* write call: the partial write is neither retried nor aggregated.
C6_PartialWriteIsOk ==
    LastOnDevice("write") /\ devRet.ok /\ devRet.n < Len(LastCall.data) =>
        /\ ret = Ok(<<>>)
        /\ Cardinality({i \in 1..Len(devCalls) : devCalls[i].prim = "write"})
             = Cardinality({i \in 1..Len(connCalls) : connCalls[i].op = "write"})

C6_Witness ==
    /\ LastOnDevice("write")
    /\ Len(LastCall.data) = 2
    /\ devRet.ok
    /\ devRet.n = 1
    /\ ret.ok

\* C7: when the device read errs, or succeeds without filling the requested
\* buffer, read(len) returns an error; no partial result is a success.
C7_ShortReadIsError ==
    LastOnDevice("read") /\ (~devRet.ok \/ devRet.n < LastCall.len)
        => ~ret.ok

\* C8: a live Connection, from either constructor and after any calls, holds
\* the transport installed at construction and no other.
C8_OneTransport ==
    /\ (conn # NoConn =>
          /\ conn.stream \in Transports
          /\ conn.stream = installed)
    /\ (ctor = "new" => conn # NoConn /\ conn.stream \in CallerStreams)
    /\ (ctor = "from_path" /\ conn # NoConn => conn.stream = "SpiStream")

C8_Witness ==
    /\ conn = Connection("StreamA")
    /\ installed = "StreamA"
    /\ Len(connCalls) >= 2
    /\ LastCall.op = "write"
    /\ ~ret.ok

\* C9: the kernel-device transport's write returns Ok(()) whenever the device
\* write call returns without error, whatever byte count it reports, and
\* returns the device's error exactly when that call errs.
C9_WriteResult ==
    LastOnDevice("write") =>
        /\ (devRet.ok => ret = Ok(<<>>))
        /\ (~devRet.ok => ret = Err(devRet.err))
        /\ (~ret.ok => ~devRet.ok)

C9_Witness ==
    /\ LastOnDevice("write")
    /\ Len(LastCall.data) = 2
    /\ devRet.ok
    /\ devRet.n = 0
    /\ ret = Ok(<<>>)

\* C10: when read(len) succeeds and the device stored only k < len bytes,
\* the result has len bytes, the first k are the device's and the rest are 0.
C10_ZeroFilledTail ==
    LastOnDevice("read") /\ ret.ok =>
        /\ Len(ret.val) = LastCall.len
        /\ \A i \in 1..LastCall.len :
              i <= Len(ret.val) =>
                ret.val[i] = IF i <= devRet.n THEN devRet.bytes[i] ELSE 0

C10_Witness ==
    /\ LastOnDevice("read")
    /\ LastCall.len = 2
    /\ devRet.ok
    /\ devRet.bytes = <<255>>
    /\ ret = Ok(<<255, 0>>)

====
